---- MODULE Spec2Model ----
(***************************************************************************)
(* The cleaning pipeline of sierra_leone_eda.ipynb as a state machine.     *)
(*                                                                         *)
(* The notebook is a straight line of statements over one DataFrame, df.   *)
(* Every statement that reads a column by name or changes df is one        *)
(* action; pc names the statement that runs next.  A statement that raises *)
(* stops the run (pc = "error") and leaves what earlier statements did.    *)
(*                                                                         *)
(* Cells.  A cell is a tuple: <<>> is a missing value (NaN, or an empty    *)
(* field of the file), <<v>> is the number v/2 (cells count in halves, so  *)
(* that the mean of the two middle readings of a column, which is what     *)
(* Series.median returns for an even count, is exact; the readings of an   *)
(* input file are whole numbers, that is even v), <<"text", mo, hr, id>>   *)
(* is a timestamp as the file spells it, <<"text", id>> a timestamp field  *)
(* that does not parse, and <<"datetime", mo, hr, id>> a parsed timestamp. *)
(*                                                                         *)
(* Scores.  A z-score is <<>> (NaN) or <<a, b, e>>: its square is a / b    *)
(* exactly, and e is 1 when the floating-point value the notebook holds    *)
(* lies a rounding error above the exact one, else 0.  The error is        *)
(* recorded only where it can change the comparison with the threshold:    *)
(* where the exact score equals it.                                        *)
(***************************************************************************)
EXTENDS Integers, Sequences, FiniteSets, TLC

VARIABLES
    infile,          \* data/sierra_leone.csv: [header, rows], never written
    pc,              \* the statement that runs next, "done" or "error"
    df,              \* the DataFrame: [columns, index, data]
    missing_report,  \* the columns the profiling cell prints (> 5% nulls)
    z_scores,        \* the DataFrame of line 75: a score per key column and row
    outliers,        \* the boolean Series of line 76, as the set of its True rows
    todo,            \* the columns the impute loop has yet to visit, in order
    csv,             \* data/sierra_leone_clean.csv: [header, rows], or NoFile
    error            \* <<>> or <<exception, statement>>

vars == <<infile, pc, df, missing_report, z_scores, outliers, todo, csv, error>>

-----------------------------------------------------------------------------
(* Bounds of the model *)

\* input tables of 1..MaxRows rows take every combination of cells in one column
MaxRows == 2
\* the long input tables have 10 .. 10 + MaxExtra rows
MaxExtra == 2

-----------------------------------------------------------------------------
(* Names the notebook uses *)

key_columns == <<"GHI", "DNI", "DHI", "ModA", "ModB", "WS", "WSgust">>

ZThreshold == 3

Range(s) == { s[k] : k \in DOMAIN s }

KeyColumns == Range(key_columns)

NA == <<>>

Num(v) == <<v>>

NoFile == [header |-> <<>>, rows |-> <<>>, written |-> FALSE]

NoError == <<>>

NoScores == <<>>

RECURSIVE Sum(_)
Sum(s) == IF s = <<>> THEN 0 ELSE Head(s) + Sum(Tail(s))

Position(s, x) == CHOOSE k \in DOMAIN s : s[k] = x

-----------------------------------------------------------------------------
(* pandas and scipy, as the notebook calls them *)

\* pd.read_csv: one column per header name, an empty field is NaN
read_csv(file) ==
    [ columns |-> file.header,
      index   |-> [r \in 1..Len(file.rows) |-> r],
      data    |-> [c \in Range(file.header) |->
                     [r \in 1..Len(file.rows) |->
                        file.rows[r][Position(file.header, c)]]] ]

\* df[~outliers].to_csv(...): the flagged rows are not written
to_csv_without_outliers(frame) ==
    LET kept == SelectSeq(frame.index, LAMBDA r : r \notin outliers) IN
    [ header  |-> frame.columns,
      rows    |-> [k \in 1..Len(kept) |->
                     [j \in 1..Len(frame.columns) |->
                        frame.data[frame.columns[j]][kept[k]]]],
      written |-> TRUE ]

\* df.to_csv(path, index=False): the header, then one line per row of the
\* index in order; NaN is written as an empty field
to_csv(frame) ==
    [ header  |-> frame.columns,
      rows    |-> [r \in 1..Len(frame.index) |->
                     [k \in 1..Len(frame.columns) |->
                        frame.data[frame.columns[k]][r]]],
      written |-> TRUE ]

\* the values of a Series that are not NaN
dropna(series) == SelectSeq(series, LAMBDA c : c # NA)

Values(series) == [k \in DOMAIN dropna(series) |-> dropna(series)[k][1]]

\* df.isna().sum() and the > 5% filter of the report
isna_sum(series) == Cardinality({k \in DOMAIN series : series[k] = NA})

MissingReport(frame) ==
    { c \in Range(frame.columns) :
        isna_sum(frame.data[c]) * 100 > 5 * Len(frame.index) }

\* median() with a default of 0 for a Series with no value
median_or_zero(series) ==
    LET s == SortSeq(Values(series), LAMBDA a, b : a < b)
        n == Len(s)
    IN  IF n = 0 THEN Num(0)
        ELSE IF n % 2 = 1 THEN Num(s[(n + 1) \div 2])
        ELSE Num((s[n \div 2] + s[n \div 2 + 1]) \div 2)

\* median() taking the lower of the two middle values
median_low(series) ==
    LET s == SortSeq(Values(series), LAMBDA a, b : a < b)
        n == Len(s)
    IN  IF n = 0 THEN NA ELSE Num(s[(n + 1) \div 2])

\* Series.median(): NaN skipped; the middle value, or the mean of the two
\* middle values; NaN when nothing is left
median(series) ==
    LET s == SortSeq(Values(series), LAMBDA a, b : a < b)
        n == Len(s)
    IN  IF n = 0 THEN NA
        ELSE IF n % 2 = 1 THEN Num(s[(n + 1) \div 2])
        ELSE Num((s[n \div 2] + s[n \div 2 + 1]) \div 2)

\* Series.fillna(value): a NaN value fills nothing
fillna(series, value) ==
    IF value = NA THEN series
    ELSE [k \in DOMAIN series |-> IF series[k] = NA THEN value ELSE series[k]]

\* clip(upper=0) in place of clip(lower=0)
clip_upper(series, lower) ==
    [k \in DOMAIN series |->
        IF series[k] # NA /\ series[k][1] > lower THEN Num(lower) ELSE series[k]]

\* clip(lower=0) on one Series: NaN stays NaN
clip_lower(series, lower) ==
    [k \in DOMAIN series |->
        IF series[k] # NA /\ series[k][1] < lower THEN Num(lower) ELSE series[k]]

\* zscore with the mean and the standard deviation of the other rows
zscore_leave_one_out(series) ==
    [k \in DOMAIN series |->
        LET rest == Values([j \in 1..(Len(series) - 1) |->
                              IF j < k THEN series[j] ELSE series[j + 1]])
            n    == Len(rest)
            s    == Sum(rest)
            ss   == Sum([j \in DOMAIN rest |-> (n * rest[j] - s) * (n * rest[j] - s)])
            d    == n * series[k][1] - s
        IN  IF series[k] = NA \/ n = 0 \/ (ss = 0 /\ d = 0) THEN NA
            ELSE <<n * d * d, ss, 0>>]

\* scipy.stats.zscore(a, nan_policy='omit') on one Series.  With n values
\* x_i left after the NaN are omitted, z = (x - mean) / std, where
\* std = sqrt(sum (x_i - mean)^2 / n).  In integers, with d(x) = n*x - sum:
\* z^2 = n * d(x)^2 / sum d(x_i)^2.  A NaN cell has score NaN, and so has
\* every cell of a column of equal values (0/0).
zscore(series) ==
    LET xs == Values(series)
        n  == Len(xs)
        s  == Sum(xs)
        ss == Sum([j \in DOMAIN xs |-> (n * xs[j] - s) * (n * xs[j] - s)])
    IN  [k \in DOMAIN series |->
            IF series[k] = NA \/ ss = 0 THEN NA
            ELSE <<n * (n * series[k][1] - s) * (n * series[k][1] - s), ss, 0>>]

\* df[key_columns].apply(zscore, nan_policy='omit')
apply_zscore(frame) == [c \in KeyColumns |-> zscore(frame.data[c])]

\* the cells whose exact score is t or -t: floating point may put them on
\* either side of the threshold
OnThreshold(zs, t) ==
    { x \in UNION { {c} \X DOMAIN zs[c] : c \in DOMAIN zs } :
        zs[x[1]][x[2]] # NA /\ zs[x[1]][x[2]][1] = t * t * zs[x[1]][x[2]][2] }

\* the scores with the cells of `up` computed a rounding error high
Rounded(zs, up) ==
    [c \in DOMAIN zs |-> [r \in DOMAIN zs[c] |->
        IF <<c, r>> \in up THEN <<zs[c][r][1], zs[c][r][2], 1>> ELSE zs[c][r]]]

\* z.abs() > t on one score: NaN > t is False
abs_gt(z, t) ==
    /\ z # NA
    /\ \/ z[1] > t * t * z[2]
       \/ z[1] = t * t * z[2] /\ z[3] = 1

\* line 76 with .all(axis=1)
Outliers_all(zs, index) ==
    { r \in Range(index) : \A c \in DOMAIN zs : abs_gt(zs[c][r], 3) }

\* (z_scores.abs() > 3).any(axis=1)
Outliers(zs, index) ==
    { r \in Range(index) : \E c \in DOMAIN zs : abs_gt(zs[c][r], ZThreshold) }

\* line 85 dropping by position: the last column goes, whatever its name
drop_last_column(frame, names) ==
    LET kept == SubSeq(frame.columns, 1, Len(frame.columns) - 1)
    IN  [ columns |-> kept,
          index   |-> frame.index,
          data    |-> [c \in Range(kept) |-> frame.data[c]] ]

\* df.drop(columns=names, errors='ignore')
drop_columns(frame, names) ==
    [ columns |-> SelectSeq(frame.columns, LAMBDA c : c \notin names),
      index   |-> frame.index,
      data    |-> [c \in Range(frame.columns) \ names |-> frame.data[c]] ]

\* df[name] = series: an existing column is replaced where it is, a new one
\* is appended
set_column(frame, name, series) ==
    [ columns |-> IF name \in Range(frame.columns) THEN frame.columns
                  ELSE Append(frame.columns, name),
      index   |-> frame.index,
      data    |-> [c \in Range(frame.columns) \cup {name} |->
                     IF c = name THEN series ELSE frame.data[c]] ]

\* the names a statement asks for that df does not have (a KeyError)
Absent(frame, names) == names \ Range(frame.columns)

\* pd.to_datetime on one field
Parses(c) == Len(c) = 4 /\ c[1] = "text"

to_datetime(c) == <<"datetime", c[2], c[3], c[4]>>

-----------------------------------------------------------------------------
(* Input files *)

FullHeader ==
    <<"Timestamp", "GHI", "DNI", "DHI", "ModA", "ModB", "Tamb", "RH", "WS",
      "WSgust", "WD", "Cleaning", "TModA", "TModB", "Comments">>

ScenarioHeader ==
    <<"Timestamp", "GHI", "DNI", "DHI", "ModA", "ModB", "WS", "WSgust",
      "Comments">>

Without(header, c) == SelectSeq(header, LAMBDA x : x # c)

CommentsFirst == <<"Comments">> \o Without(FullHeader, "Comments")

Headers ==
    {FullHeader, ScenarioHeader, CommentsFirst}
        \cup { Without(FullHeader, c) : c \in Range(FullHeader) }

DataHeaders == {FullHeader, ScenarioHeader}

Readings == {-4, 0, 6}

Cells == {NA} \cup { Num(v) : v \in Readings }

DefaultCell == Num(2)

\* the ten rows of the documented scenario and its ModA reading of 500
ScenarioRows == 1..10

ScenarioOutlier == Num(1000)

NextKey(c) == key_columns[(Position(key_columns, c) % Len(key_columns)) + 1]

\* a second column that differs from the rest of the table
Companions(n) ==
    { [r \in 1..n |-> DefaultCell],
      [r \in 1..n |-> IF r = 1 THEN NA ELSE Num(10)],
      [r \in 1..n |-> IF r = n THEN Num(-6) ELSE NA] }

\* ordinary readings around 50 (100 halves)
Ordinary(profile, r) ==
    IF profile = 1 THEN 100
    ELSE IF profile = 2 THEN (IF r % 2 = 0 THEN 80 ELSE 120)
    ELSE 90 + 2 * r

\* the key columns of the short tables
ShortTables ==
    { [n |-> n,
       key |-> [c \in KeyColumns |->
                  IF c = f THEN a
                  ELSE IF c = NextKey(f) THEN b
                  ELSE [r \in 1..n |-> DefaultCell]]] :
        <<n, f, a, b>> \in
            UNION { {n} \X KeyColumns \X [1..n -> Cells] \X Companions(n)
                    : n \in 1..MaxRows } }

\* the key columns of the long tables: one column of ordinary readings with
\* one reading of 500 in the first, a middle or the last row, and possibly a
\* missing reading in the row after it
LongTables ==
    { [n |-> x[1],
       key |-> [c \in KeyColumns |->
                  IF c = x[2]
                  THEN [r \in 1..x[1] |->
                          IF r = x[4] THEN ScenarioOutlier
                          ELSE IF x[5] /\ r = (x[4] % x[1]) + 1 THEN NA
                          ELSE Num(Ordinary(x[3], r))]
                  ELSE [r \in 1..x[1] |-> DefaultCell]]] :
        x \in UNION { {n} \X KeyColumns \X (1..3) \X {1, n \div 2, n} \X BOOLEAN
                      : n \in { Cardinality(ScenarioRows) + k : k \in 0..MaxExtra } } }

FewTables ==
    { [n |-> 2,
       key |-> [c \in KeyColumns |->
                  IF c = "GHI" THEN <<NA, Num(6)>>
                  ELSE IF c = "WS" THEN <<Num(-4), DefaultCell>>
                  ELSE <<DefaultCell, DefaultCell>>]] }

Stamp(r, good) ==
    IF good THEN <<"text", 1 + (r % 12), r % 24, r>> ELSE <<"text", r>>

MakeFile(header, table, good) ==
    [ header  |-> header,
      rows    |-> [r \in 1..table.n |->
                     [k \in 1..Len(header) |->
                        IF header[k] \in KeyColumns THEN table.key[header[k]][r]
                        ELSE IF header[k] = "Timestamp" THEN Stamp(r, good \/ r # 1)
                        ELSE IF header[k] = "Comments" THEN NA
                        ELSE Num(0)]],
      written |-> TRUE ]

InputFiles ==
    { MakeFile(h, t, g) : h \in Headers, t \in FewTables, g \in BOOLEAN }
        \cup { MakeFile(h, t, TRUE) : h \in DataHeaders, t \in ShortTables \cup LongTables }

-----------------------------------------------------------------------------
(* The notebook *)

\* line 47: df = pd.read_csv('data/sierra_leone.csv')
Init ==
    /\ infile \in InputFiles
    /\ df = read_csv(infile)
    /\ pc = "profile"
    /\ missing_report = {}
    /\ z_scores = NoScores
    /\ outliers = {}
    /\ todo = key_columns
    /\ csv = NoFile
    /\ error = NoError

Raise(exception) ==
    /\ pc' = "error"
    /\ error' = <<exception, pc>>

\* a statement that only reads the columns `names` (a plot, a groupby)
Reads(names, next) ==
    /\ IF Absent(df, names) # {}
       THEN Raise("KeyError")
       ELSE pc' = next /\ error' = error
    /\ UNCHANGED <<infile, df, missing_report, z_scores, outliers, todo, csv>>

\* lines 50-57: describe() and the missing values report
Profile ==
    /\ pc = "profile"
    /\ missing_report' = MissingReport(df)
    /\ pc' = "zscore"
    /\ UNCHANGED <<infile, df, z_scores, outliers, todo, csv, error>>

\* lines 75-76 over the key columns df happens to have, nothing raised
DetectOutliers_lenient ==
    /\ pc = "zscore"
    /\ z_scores' = [c \in KeyColumns \cap Range(df.columns) |-> zscore(df.data[c])]
    /\ outliers' = Outliers(z_scores', df.index)
    /\ pc' = "impute"
    /\ UNCHANGED <<infile, df, missing_report, todo, csv, error>>

\* lines 75-78: z-scores of df[key_columns], the outlier mask and its report
DetectOutliers ==
    /\ pc = "zscore"
    /\ IF Absent(df, KeyColumns) # {}
       THEN Raise("KeyError") /\ UNCHANGED <<z_scores, outliers>>
       ELSE \E up \in SUBSET OnThreshold(apply_zscore(df), ZThreshold) :
            /\ z_scores' = Rounded(apply_zscore(df), up)
            /\ outliers' = Outliers(z_scores', df.index)
            /\ pc' = "impute"
            /\ error' = error
    /\ UNCHANGED <<infile, df, missing_report, todo, csv>>

\* line 82 with one median for the whole table: the median of every value
\* of the key columns
ImputeFrame_global(frame, col) ==
    LET RECURSIVE Pool(_)
        Pool(k) == IF k = 0 THEN <<>> ELSE Pool(k - 1) \o frame.data[key_columns[k]]
    IN  set_column(frame, col, fillna(frame.data[col], median(Pool(Len(key_columns)))))

\* line 82 without the assignment: df[col].fillna(df[col].median())
ImputeFrame_unassigned(frame, col) == frame

\* line 82, once per column of key_columns in order
ImputeFrame(frame, col) ==
    set_column(frame, col, fillna(frame.data[col], median(frame.data[col])))

\* one pass of the loop body, for the k-th of the columns yet to visit
ImputeAt(k) ==
    /\ pc = "impute"
    /\ IF Absent(df, {todo[k]}) # {}
       THEN Raise("KeyError") /\ UNCHANGED <<df, todo>>
       ELSE /\ df' = ImputeFrame(df, todo[k])
            /\ todo' = SubSeq(todo, 1, k - 1) \o SubSeq(todo, k + 1, Len(todo))
            /\ pc' = IF Len(todo) = 1 THEN "drop" ELSE "impute"
            /\ error' = error
    /\ UNCHANGED <<infile, missing_report, z_scores, outliers, csv>>

\* lines 81-82: the loop visits the columns in the order of key_columns
ImputeColumn == ImputeAt(1)

\* line 85: df = df.drop(columns=['Comments'], errors='ignore')
DropComments ==
    /\ pc = "drop"
    /\ df' = drop_columns(df, {"Comments"})
    /\ pc' = "clip"
    /\ UNCHANGED <<infile, missing_report, z_scores, outliers, todo, csv, error>>

\* line 88: df[key_columns] = df[key_columns].clip(lower=0)
ClipFrame(frame) ==
    [frame EXCEPT !.data = [c \in DOMAIN frame.data |->
        IF c \in KeyColumns THEN clip_lower(frame.data[c], 0) ELSE frame.data[c]]]

Clip ==
    /\ pc = "clip"
    /\ IF Absent(df, KeyColumns) # {}
       THEN Raise("KeyError") /\ UNCHANGED df
       ELSE df' = ClipFrame(df) /\ pc' = "export" /\ error' = error
    /\ UNCHANGED <<infile, missing_report, z_scores, outliers, todo, csv>>

\* line 91: df.to_csv('data/sierra_leone_clean.csv', index=False)
Export ==
    /\ pc = "export"
    /\ csv' = to_csv(df)
    /\ pc' = "to_datetime"
    /\ UNCHANGED <<infile, df, missing_report, z_scores, outliers, todo, error>>

\* line 109: df['Timestamp'] = pd.to_datetime(df['Timestamp'])
ToDatetime ==
    /\ pc = "to_datetime"
    /\ IF Absent(df, {"Timestamp"}) # {}
       THEN Raise("KeyError") /\ UNCHANGED df
       ELSE IF \E r \in DOMAIN df.data["Timestamp"] : ~Parses(df.data["Timestamp"][r])
       THEN Raise("ValueError") /\ UNCHANGED df
       ELSE /\ df' = set_column(df, "Timestamp",
                        [r \in DOMAIN df.data["Timestamp"] |->
                            to_datetime(df.data["Timestamp"][r])])
            /\ pc' = "plot_series"
            /\ error' = error
    /\ UNCHANGED <<infile, missing_report, z_scores, outliers, todo, csv>>

\* lines 112-121: the line plot of GHI, DNI, DHI and Tamb over Timestamp
PlotSeries ==
    /\ pc = "plot_series"
    /\ Reads({"Timestamp", "GHI", "DNI", "DHI", "Tamb"}, "month_hour")

\* lines 124-137: df['Month'], df['Hour'] and the two plots over them
MonthHour ==
    /\ pc = "month_hour"
    /\ df' = set_column(
                set_column(df, "Month",
                    [r \in DOMAIN df.data["Timestamp"] |-> Num(df.data["Timestamp"][r][2])]),
                "Hour",
                [r \in DOMAIN df.data["Timestamp"] |-> Num(df.data["Timestamp"][r][3])])
    /\ pc' = "cleaning"
    /\ UNCHANGED <<infile, missing_report, z_scores, outliers, todo, csv, error>>

\* lines 164-170: df.groupby('Cleaning')[['ModA', 'ModB']].mean()
CleaningImpact ==
    /\ pc = "cleaning"
    /\ Reads({"Cleaning", "ModA", "ModB"}, "correlation")

\* lines 196-206: the correlation heatmap and the WS / GHI scatter plot
Correlation ==
    /\ pc = "correlation"
    /\ Reads({"GHI", "DNI", "DHI", "TModA", "TModB", "WS"}, "wind")

\* lines 232-246: the wind rose and the histograms
WindRose ==
    /\ pc = "wind"
    /\ Reads({"WD", "WS", "GHI"}, "temperature")

\* lines 272-283: the RH / Tamb scatter plot and the bubble chart
Temperature ==
    /\ pc = "temperature"
    /\ Reads({"RH", "Tamb", "GHI"}, "done")

Next ==
    \/ Profile
    \/ DetectOutliers
    \/ ImputeColumn
    \/ DropComments
    \/ Clip
    \/ Export
    \/ ToDatetime
    \/ PlotSeries
    \/ MonthHour
    \/ CleaningImpact
    \/ Correlation
    \/ WindRose
    \/ Temperature

Spec == Init /\ [][Next]_vars

\* The impute loop alone, on a table as it stands when the loop starts, with
\* the columns visited in any order: each step takes any one of the columns
\* yet to visit.  The runs of this specification are the runs of lines
\* 81-82 for every order of key_columns.
InitLoop ==
    /\ infile \in { f \in InputFiles : f.header = FullHeader }
    /\ df = read_csv(infile)
    /\ pc = "impute"
    /\ missing_report = MissingReport(df)
    /\ z_scores = apply_zscore(df)
    /\ outliers = Outliers(z_scores, df.index)
    /\ todo = key_columns
    /\ csv = NoFile
    /\ error = NoError

ImputeAnyColumn == \E k \in DOMAIN todo : ImputeAt(k)

SpecAnyOrder == InitLoop /\ [][ImputeAnyColumn]_vars

-----------------------------------------------------------------------------
(* What the properties below speak of: the two files, cell by cell *)

Field(file, r, c) == file.rows[r][Position(file.header, c)]

Rows(file) == 1..Len(file.rows)

HasKeyColumns == KeyColumns \subseteq Range(infile.header)

\* the readings of column c of the input file, missing fields left out
Present(c) == { r \in Rows(infile) : Field(infile, r, c) # NA }

Reading(r, c) == Field(infile, r, c)[1]

AllMissing(c) == Present(c) = {}

\* the k-th smallest reading of column c of the input file, by counting
Kth(c, k) ==
    CHOOSE v \in { Reading(r, c) : r \in Present(c) } :
        /\ Cardinality({ r \in Present(c) : Reading(r, c) < v }) < k
        /\ Cardinality({ r \in Present(c) : Reading(r, c) <= v }) >= k

\* twice the median of the readings of column c of the input file: the sum
\* of the two middle readings, which are one reading when the count is odd
TwiceMedian(c) ==
    LET n == Cardinality(Present(c)) IN
    Kth(c, (n + 1) \div 2) + Kth(c, n \div 2 + 1)

\* m is the median of the readings of column c of the input file
IsMedianOf(m, c) == 2 * m = TwiceMedian(c)

Ran(statements) == pc \in statements \/ (pc = "error" /\ error[2] \in statements)

AfterImpute ==
    {"drop", "clip", "export", "to_datetime", "plot_series", "month_hour",
     "cleaning", "correlation", "wind", "temperature", "done"}

AfterExport == AfterImpute \ {"drop", "clip", "export"}

-----------------------------------------------------------------------------
(* C1 *)

-----------------------------------------------------------------------------
(* C2 *)

\* C2: no field of a designated column of the cleaned file is negative, and
\* the clip statement turns every value below zero into zero and leaves
\* every other cell of the table as it was.
C2_ClipAtZero ==
    /\ [](csv.written =>
            \A c \in KeyColumns : \A r \in Rows(csv) :
                Field(csv, r, c) # NA => Field(csv, r, c)[1] >= 0)
    /\ [][(pc = "clip" /\ pc' = "export") =>
            /\ df'.columns = df.columns
            /\ df'.index = df.index
            /\ \A c \in Range(df.columns) : \A r \in DOMAIN df.data[c] :
                df'.data[c][r] =
                    IF c \in KeyColumns /\ df.data[c][r] # NA /\ df.data[c][r][1] < 0
                    THEN Num(0)
                    ELSE df.data[c][r]]_vars

C2_Witness ==
    /\ csv.written
    /\ \E c \in KeyColumns : \E r \in Present(c) :
        /\ Reading(r, c) < 0
        /\ Field(csv, r, c) = Num(0)
    /\ \E c \in KeyColumns : \E r \in Present(c) :
        /\ Reading(r, c) > 0
        /\ Field(csv, r, c) = Field(infile, r, c)

-----------------------------------------------------------------------------
(* C3 *)

-----------------------------------------------------------------------------
(* C4 *)

\* C4 as stated: in the cleaned file every field of a designated column that
\* was missing in the input holds the median of the column's input readings,
\* also when that median is below zero.
C4_FilledWithMedian ==
    csv.written =>
        \A c \in KeyColumns : \A r \in Rows(infile) :
            (Field(infile, r, c) = NA /\ ~AllMissing(c)) =>
                /\ Field(csv, r, c) # NA
                /\ IsMedianOf(Field(csv, r, c)[1], c)

\* C4 amended: in the cleaned file every field of a designated column that
\* was missing in the input holds the median of the column's input readings
\* clipped at zero: the median when it is >= 0, and 0 when it is below zero.
C4_FilledWithClippedMedian ==
    csv.written =>
        \A c \in KeyColumns : \A r \in Rows(infile) :
            (Field(infile, r, c) = NA /\ ~AllMissing(c)) =>
                /\ Field(csv, r, c) # NA
                /\ \/ IsMedianOf(Field(csv, r, c)[1], c) /\ Field(csv, r, c)[1] >= 0
                   \/ Field(csv, r, c) = Num(0) /\ TwiceMedian(c) < 0

C4_Witness ==
    /\ csv.written
    /\ \E c \in KeyColumns : \E r \in Rows(infile) :
        /\ Field(infile, r, c) = NA
        /\ Field(csv, r, c) = Num(0)
        /\ TwiceMedian(c) < 0
    /\ \E c \in KeyColumns : \E r \in Rows(infile) :
        /\ Field(infile, r, c) = NA
        /\ Field(csv, r, c) # NA
        /\ Field(csv, r, c)[1] > 0

-----------------------------------------------------------------------------
(* C5 *)

Loaded == df = read_csv(infile)

\* C5 as stated: if a designated column, Timestamp or Cleaning is absent
\* from the loaded file, the run aborts before the table is changed and
\* before the cleaned file is written.
C5_AbortsBeforeAnyMutation ==
    (KeyColumns \cup {"Timestamp", "Cleaning"}) \ Range(infile.header) # {} =>
        /\ Loaded
        /\ ~csv.written
        /\ pc # "done"

\* C5 amended: the run never completes when such a column is absent, but
\* only an absent designated column stops it before any change: the z-score
\* statement raises KeyError, the table is as loaded and no file is written.
\* An absent Timestamp or Cleaning column is noticed only by the statement
\* that first reads it (pd.to_datetime, the groupby), after the table has
\* been cleaned and the cleaned file has been written.
C5_AbortsWhereTheColumnIsRead ==
    /\ ~HasKeyColumns =>
        /\ Loaded
        /\ ~csv.written
        /\ pc \in {"profile", "zscore", "error"}
        /\ pc = "error" => error = <<"KeyError", "zscore">>
    /\ (HasKeyColumns /\ "Timestamp" \notin Range(infile.header)) =>
        /\ pc \notin AfterExport \ {"to_datetime"}
        /\ pc = "error" => (error = <<"KeyError", "to_datetime">> /\ csv.written)
    /\ (HasKeyColumns /\ "Cleaning" \notin Range(infile.header)) =>
        /\ pc \notin {"correlation", "wind", "temperature", "done"}
        /\ pc = "error" => (error[2] \in AfterExport /\ csv.written)

C5_Witness ==
    /\ pc = "error"
    /\ error = <<"KeyError", "cleaning">>
    /\ "Cleaning" \notin Range(infile.header)
    /\ csv.written
    /\ ~Loaded

C5_WitnessKeyColumn ==
    /\ pc = "error"
    /\ error = <<"KeyError", "zscore">>
    /\ ~HasKeyColumns

-----------------------------------------------------------------------------
(* C6 *)

\* the input file is the documented scenario: the nine columns, ten rows,
\* one row with ModA = 500, the other ModA readings between 40 and 60
ScenarioRow(r) == Field(infile, r, "ModA") = ScenarioOutlier

IsScenario ==
    /\ infile.header = ScenarioHeader
    /\ Rows(infile) = ScenarioRows
    /\ Cardinality({ r \in Rows(infile) : ScenarioRow(r) }) = 1
    /\ \A r \in Rows(infile) :
        \/ ScenarioRow(r)
        \/ /\ Field(infile, r, "ModA") # NA
           /\ Reading(r, "ModA") \in 80..120

\* C6 as stated: in the scenario the ModA = 500 row is in the outlier report.
C6_ScenarioRowIsReported ==
    (IsScenario /\ Ran(AfterImpute \cup {"impute"})) =>
        \A r \in Rows(infile) : ScenarioRow(r) => r \in outliers

\* the nine ordinary ModA readings of the scenario are one and the same
OthersAllEqual ==
    \A r1, r2 \in Rows(infile) :
        (~ScenarioRow(r1) /\ ~ScenarioRow(r2)) =>
            Field(infile, r1, "ModA") = Field(infile, r2, "ModA")

\* C6 amended: in the scenario the ModA = 500 row is not in the outlier
\* report unless the other nine ModA readings are all equal.  The score is
\* taken over the column's own ten values, the 500 included, and one value
\* among ten is less than 3 standard deviations from their mean when the
\* other nine differ; when they are all equal it is exactly 3 away, and
\* floating-point rounding decides on which side of the threshold it falls.
C6_ScenarioRowIsNotReported ==
    (IsScenario /\ Ran(AfterImpute \cup {"impute"})) =>
        \A r \in Rows(infile) :
            (ScenarioRow(r) /\ r \in outliers) => OthersAllEqual

C6_Witness ==
    /\ IsScenario
    /\ Ran(AfterImpute \cup {"impute"})
    /\ ~OthersAllEqual
    /\ \E r \in Rows(infile) : ScenarioRow(r) /\ r \notin outliers

C6_WitnessRounding ==
    /\ IsScenario
    /\ Ran(AfterImpute \cup {"impute"})
    /\ OthersAllEqual
    /\ \E r \in Rows(infile) : ScenarioRow(r) /\ r \in outliers

-----------------------------------------------------------------------------
(* C7 *)

\* C7: the cleaned file has the rows of the input file, as many and in the
\* same order: row r of the output is row r of the input with its missing
\* and negative designated values corrected, every other field as it was,
\* the rows the outlier detector flagged included.
C7_RowsKept ==
    csv.written =>
        /\ Len(csv.rows) = Len(infile.rows)
        /\ \A r \in Rows(csv) : \A c \in Range(csv.header) :
            \/ Field(csv, r, c) = Field(infile, r, c)
            \/ /\ c \in KeyColumns
               /\ \/ Field(infile, r, c) = NA
                  \/ Reading(r, c) < 0

C7_Witness ==
    /\ csv.written
    /\ outliers # {}
    /\ outliers # Rows(infile)
    /\ \A r \in outliers :
        /\ r \in Rows(csv)
        /\ Field(csv, r, "Timestamp") = Field(infile, r, "Timestamp")

-----------------------------------------------------------------------------
(* C8 *)

\* C8, under SpecAnyOrder: when the impute loop has ended, in whatever order
\* it visited the designated columns, in every designated column with a
\* reading each cell that was missing holds the median of that column's
\* input readings and each other cell is as it was (so the table is the
\* same for every order); a column with no reading and every other column
\* are as loaded.
C8_ColumnLocalMedian ==
    pc = "drop" =>
        /\ df.columns = infile.header
        /\ \A c \in Range(infile.header) : \A r \in Rows(infile) :
            IF c \in KeyColumns /\ Field(infile, r, c) = NA /\ ~AllMissing(c)
            THEN df.data[c][r] # NA /\ IsMedianOf(df.data[c][r][1], c)
            ELSE df.data[c][r] = Field(infile, r, c)

C8_Witness ==
    /\ pc = "drop"
    /\ \E c1, c2 \in KeyColumns :
        /\ ~AllMissing(c1) /\ ~AllMissing(c2)
        /\ TwiceMedian(c1) # TwiceMedian(c2)
        /\ \E r \in Rows(infile) :
            /\ Field(infile, r, c1) = NA /\ df.data[c1][r] # NA
            /\ Field(infile, r, c2) = NA /\ df.data[c2][r] # NA

-----------------------------------------------------------------------------
(* C9 *)

\* the readings of column c of the input file: their number n, their sum s
\* and the sum q of their squares
RECURSIVE Total(_, _, _)
Total(rs, c, squared) ==
    IF rs = {} THEN 0
    ELSE LET x == CHOOSE y \in rs : TRUE IN
         (IF squared THEN Reading(x, c) * Reading(x, c) ELSE Reading(x, c))
            + Total(rs \ {x}, c, squared)

Stats(c) ==
    [ n |-> Cardinality(Present(c)),
      s |-> Total(Present(c), c, FALSE),
      q |-> Total(Present(c), c, TRUE) ]

\* n^2 times the square of (x - mean), and n^2 times the variance: the
\* mean is s/n and std^2 = q/n - (s/n)^2
Dev2(st, x) == (st.n * x - st.s) * (st.n * x - st.s)

Var2(st) == st.n * st.q - st.s * st.s

\* |x - mean| / std is above 3, is exactly 3
ScoreAbove3(st, x) == Dev2(st, x) > 9 * Var2(st)

ScoreIs3(st, x) == Var2(st) > 0 /\ Dev2(st, x) = 9 * Var2(st)

ScoresOf(c) ==
    LET st == Stats(c) IN
    \A r \in Rows(infile) :
        IF r \notin Present(c) \/ Var2(st) = 0
        THEN z_scores[c][r] = NA
        ELSE /\ z_scores[c][r] # NA
             /\ z_scores[c][r][1] = st.n * Dev2(st, Reading(r, c))
             /\ z_scores[c][r][2] = st.n * Var2(st)
             /\ z_scores[c][r][3] = 1 => ScoreIs3(st, Reading(r, c))

AboveIn(c) ==
    LET st == Stats(c) IN
    { r \in Present(c) :
        \/ ScoreAbove3(st, Reading(r, c))
        \/ ScoreIs3(st, Reading(r, c)) /\ z_scores[c][r][3] = 1 }

\* C9: right after the detector has run, every designated reading has the
\* score (reading - mean) / std of its column's input readings (NaN when
\* they are all equal; its square held as the fraction n Dev2 / n Var2),
\* computed exactly or, only where it is exactly 3, a rounding error above;
\* a missing value has no score; the flagged rows are exactly the rows with
\* a score above 3; the table is as loaded; and running the detector again
\* on it gives the same scores and flags.
C9_FlaggedIffScoreAbove3 ==
    (pc = "impute" /\ todo = key_columns) =>
        /\ \A c \in KeyColumns : ScoresOf(c)
        /\ outliers = UNION { AboveIn(c) : c \in KeyColumns }
        /\ Loaded
        /\ Outliers(z_scores, df.index) = outliers
        /\ \E up \in SUBSET OnThreshold(z_scores, ZThreshold) :
                Rounded(apply_zscore(df), up) = z_scores

C9_Witness ==
    /\ pc = "impute" /\ todo = key_columns
    /\ outliers # {}
    /\ \E c \in KeyColumns :
        /\ \E r \in Present(c) : ScoreAbove3(Stats(c), Reading(r, c))
        /\ \E r \in Rows(infile) : Field(infile, r, c) = NA /\ r \notin outliers

-----------------------------------------------------------------------------
(* C10 *)

\* C10: the header of the cleaned file is the header of the input file
\* without Comments, in the same order, with no Month or Hour column; when
\* the input has no Comments column the drop statement raises nothing and
\* leaves the columns as they were.
C10_HeaderIsInputWithoutComments ==
    /\ csv.written =>
        csv.header = SelectSeq(infile.header, LAMBDA c : c # "Comments")
    /\ pc = "error" => error[2] # "drop"
    /\ (pc = "clip" /\ "Comments" \notin Range(infile.header)) =>
        /\ df.columns = infile.header
        /\ DOMAIN df.data = Range(infile.header)

C10_Witness ==
    /\ csv.written
    /\ "Comments" \in Range(infile.header)
    /\ infile.header[Len(infile.header)] # "Comments"
    /\ "Comments" \notin Range(csv.header)
    /\ {"Month", "Hour"} \subseteq Range(df.columns)

C10_WitnessNoComments ==
    /\ csv.written
    /\ "Comments" \notin Range(infile.header)

====
